---- MODULE Spec2Model ----
(***************************************************************************)
(* Model of main.py: CEP lookup with provider fallback (CEPService), the   *)
(* batch pass over the input column (CEPProcessor.process), the e-mail     *)
(* pass (EmailSender.send_emails), the PDF summary (gerar_relatorio_pdf)   *)
(* and the driver (main).  Strings that the code transforms are sequences  *)
(* of one-character strings; dictionaries and DataFrame rows are functions *)
(* from key names to values.                                               *)
(***************************************************************************)
EXTENDS Integers, Sequences, FiniteSets, TLC

\* ------------------------------------------------------------------ bounds
MaxBatch == 2

\* ------------------------------------------------------------ input domain
\* Cells of the 'CEP' column as str(cep) sees them: hyphenated, padded with
\* blanks, with a blank inside, and a lone hyphen.
InputCodes ==
  { <<"0", "-", "1">>, <<" ", "0", "1", " ">>, <<"0", " ", "1">>, <<"-">> }

\* The input artifact: absent, present without the 'CEP' column, or present
\* with a column of 0..MaxBatch cells.
RECURSIVE SeqsUpTo(_, _)
SeqsUpTo(S, n) ==
  IF n = 0 THEN { <<>> }
  ELSE LET shorter == SeqsUpTo(S, n - 1)
       IN  shorter \cup { Append(s, x) : s \in { t \in shorter : Len(t) = n - 1 }, x \in S }

InputFiles ==
  { [kind |-> "absent"], [kind |-> "nocolumn"] }
    \cup { [kind |-> "csv", CEP |-> col] : col \in SeqsUpTo(InputCodes, MaxBatch) }

\* ------------------------------------------------------- str.replace/strip
Whitespace == { " " }

RECURSIVE RemoveHyphens(_)
RemoveHyphens(s) ==
  IF s = <<>> THEN <<>>
  ELSE IF Head(s) = "-" THEN RemoveHyphens(Tail(s))
       ELSE <<Head(s)>> \o RemoveHyphens(Tail(s))

RECURSIVE LStrip(_)
LStrip(s) ==
  IF s = <<>> THEN <<>>
  ELSE IF Head(s) \in Whitespace THEN LStrip(Tail(s)) ELSE s

RECURSIVE RStrip(_)
RStrip(s) ==
  IF s = <<>> THEN <<>>
  ELSE IF s[Len(s)] \in Whitespace THEN RStrip(SubSeq(s, 1, Len(s) - 1)) ELSE s

Strip(s) == RStrip(LStrip(s))

\* cep.replace("-", "").strip()
Normalize(cep) == Strip(RemoveHyphens(cep))

\* ------------------------------------------------------ provider responses
AddressKeys == { "logradouro", "bairro", "localidade", "uf" }

\* Which address keys a response body carries.
AddressShapes == { AddressKeys \ {"logradouro"}, AddressKeys }

\* The 'cep' entry of a body: absent, empty, or in the providers' format.
CepEntries == { {}, { <<>> }, { <<"0", "-", "1">> } }

\* The text a body carries under each address key.
AddressText ==
  [ logradouro |-> <<"R">>, bairro |-> <<"B">>, localidade |-> <<"L">>, uf |-> <<"U">> ]

Body(erro, cepEntry, shape) ==
  [ k \in (IF erro THEN {"erro"} ELSE {})
            \cup (IF cepEntry = {} THEN {} ELSE {"cep"})
            \cup shape
      |-> IF k = "cep" THEN CHOOSE v \in cepEntry : TRUE
          ELSE IF k = "erro" THEN "true"
          ELSE AddressText[k] ]

Bodies == { Body(e, c, a) : e \in BOOLEAN, c \in CepEntries, a \in AddressShapes }

\* What requests.get / raise_for_status / json() can produce for one call.
Outcomes ==
  { [kind |-> "exception"], [kind |-> "nondict"] }
    \cup { [kind |-> "json", body |-> b] : b \in Bodies }

\* Python truthiness of a string value.
Truthy(v) == v # <<>>

WithStatus(resposta) ==
  [ k \in DOMAIN resposta \cup {"status"}
      |-> IF k = "status" THEN "Sucesso" ELSE resposta[k] ]

Accepts(outcome) ==
  /\ outcome.kind = "json"
  /\ "erro" \notin DOMAIN outcome.body
  /\ "cep" \in DOMAIN outcome.body
  /\ Truthy(outcome.body["cep"])

\* _realizar_consulta without the test for the 'erro' marker.
realizar_consulta_erro_ignored(outcome, cep) ==
  IF /\ outcome.kind = "json"
     /\ "cep" \in DOMAIN outcome.body
     /\ Truthy(outcome.body["cep"])
    THEN WithStatus(outcome.body)
    ELSE [cep |-> cep, status |-> "Erro"]

\* CEPService._realizar_consulta: the dictionary it returns.
realizar_consulta(outcome, cep) ==
  IF Accepts(outcome)
    THEN WithStatus(outcome.body)
    ELSE [cep |-> cep, status |-> "Erro"]

\* ------------------------------------------------- template and rendering
PH_cep == <<"$", "{", "c", "e", "p", "}">>
PH_logradouro == <<"$", "{", "l", "o", "g", "r", "a", "d", "o", "u", "r", "o", "}">>
PH_bairro == <<"$", "{", "b", "a", "i", "r", "r", "o", "}">>
PH_cidade == <<"$", "{", "c", "i", "d", "a", "d", "e", "}">>
PH_estado == <<"$", "{", "e", "s", "t", "a", "d", "o", "}">>

\* The placeholder that each column of the row fills.
Placeholder ==
  [ cep |-> PH_cep, logradouro |-> PH_logradouro, bairro |-> PH_bairro,
    localidade |-> PH_cidade, uf |-> PH_estado ]

\* Contents of email_modelo.html: "CEP ${cep} - ${cidade}/${estado}".
Templates ==
  { <<"C", "E", "P", " ">> \o PH_cep \o <<" ", "-", " ">> \o PH_cidade
      \o <<"/">> \o PH_estado }

\* str.replace(old, new) for a non-empty old: leftmost occurrences, not
\* overlapping, and the inserted text is not scanned again.
RECURSIVE Replace(_, _, _)
Replace(s, old, new) ==
  IF Len(s) < Len(old) THEN s
  ELSE IF SubSeq(s, 1, Len(old)) = old
         THEN new \o Replace(SubSeq(s, Len(old) + 1, Len(s)), old, new)
         ELSE <<Head(s)>> \o Replace(Tail(s), old, new)

\* str(cep[k]) on a row of the frame: a row without the key holds NaN.
StrCell(row, k) == IF k \in DOMAIN row THEN row[k] ELSE <<"n", "a", "n">>

\* corpo_template.replace('${cep}', ...).replace('${logradouro}', ...)...
Render(template, row) ==
  LET r1 == Replace(template, PH_cep, StrCell(row, "cep"))
      r2 == Replace(r1, PH_logradouro, StrCell(row, "logradouro"))
      r3 == Replace(r2, PH_bairro, StrCell(row, "bairro"))
      r4 == Replace(r3, PH_cidade, StrCell(row, "localidade"))
  IN  Replace(r4, PH_estado, StrCell(row, "uf"))

\* --------------------------------------------------------------- the state
VARIABLES
  pc,               \* control position of main and of the functions it calls
  input_file,       \* the input artifact (ceps_lista_30.csv)
  pass_file,        \* pass.txt: is it there
  email_template,   \* email_modelo.html: absent, or its text
  i,                \* CEPProcessor.process: cells of df['CEP'] consumed
  cep,              \* CEPService.consultar_cep: the normalized cep
  requisicao,       \* _realizar_consulta: what the last HTTP call produced
  resposta,         \* CEPService.consultar_cep: the current answer
  calls,            \* consultar_cep: its provider calls, <<provider, cep, accepted>>
  dados_completos,  \* CEPProcessor.process: the list of answers
  dados_ceps,       \* the DataFrame (df_resultados / result_df / dados_ceps)
  result_df,        \* what process returned to main: "unset", "None", "frame"
  output_file,      \* dados_ceps_completos.xlsx: sequence of versions written
  j,                \* EmailSender.send_emails: rows handled
  msg,              \* send_emails: is the local msg bound
  smtp,             \* the SMTP session of the with block: "closed" or "open"
  transport,        \* per row, the SMTP operations called for it, <<op, result>>
  corpo_template,   \* main / send_emails: the template text read
  corpo,            \* send_emails: the rendered body
  output_pdf,       \* relatorio.pdf: sequence of reports written
  log               \* processamento.log: the kinds of ERROR entries written

vars == << pc, input_file, pass_file, email_template, i, cep, requisicao, resposta,
           calls, dados_completos, dados_ceps, result_df, output_file, j, msg, smtp,
           transport, corpo_template, corpo, output_pdf, log >>

envVars == << input_file, pass_file, email_template >>

resolverVars == << cep, requisicao, resposta, calls, dados_completos, i >>
notifierVars == << j, msg, smtp, transport, corpo_template, corpo >>

NoAnswer == [status |-> "unset"]
NoRequest == [kind |-> "none"]

Init ==
  /\ pc = "main"
  /\ input_file \in InputFiles
  /\ pass_file \in BOOLEAN
  /\ email_template \in { [kind |-> "absent"] }
                          \cup { [kind |-> "text", text |-> t] : t \in Templates }
  /\ i = 0
  /\ cep = <<>>
  /\ requisicao = NoRequest
  /\ resposta = NoAnswer
  /\ calls = <<>>
  /\ dados_completos = <<>>
  /\ dados_ceps = <<>>
  /\ result_df = "unset"
  /\ output_file = <<>>
  /\ j = 0
  /\ msg = FALSE
  /\ smtp = "closed"
  /\ transport = <<>>
  /\ corpo_template = <<>>
  /\ corpo = <<>>
  /\ output_pdf = <<>>
  /\ log = {}

\* ------------------------------------------------- CEPProcessor.process
\* process without the test for the 'CEP' column: a file without it is
\* handled as an empty column.
process_read_unchecked ==
  /\ pc = "main"
  /\ \/ /\ input_file.kind = "absent"
        /\ log' = log \cup {"input_not_found"}
        /\ result_df' = "None"
        /\ pc' = "main_check"
        /\ UNCHANGED output_file
     \/ /\ input_file.kind = "nocolumn"
        /\ output_file' = Append(output_file, <<>>)
        /\ result_df' = "frame"
        /\ pc' = "main_check"
        /\ UNCHANGED log
     \/ /\ input_file.kind = "csv"
        /\ pc' = "process_loop"
        /\ UNCHANGED << log, result_df, output_file >>
  /\ UNCHANGED << envVars, resolverVars, dados_ceps, notifierVars, output_pdf >>

\* pd.read_csv and the column test; the three except clauses return None.
process_read ==
  /\ pc = "main"
  /\ \/ /\ input_file.kind = "absent"
        /\ log' = log \cup {"input_not_found"}
        /\ result_df' = "None"
        /\ pc' = "main_check"
     \/ /\ input_file.kind = "nocolumn"
        /\ log' = log \cup {"input_invalid"}
        /\ result_df' = "None"
        /\ pc' = "main_check"
     \/ /\ input_file.kind = "csv"
        /\ pc' = "process_loop"
        /\ UNCHANGED << log, result_df >>
  /\ UNCHANGED << envVars, resolverVars, dados_ceps, output_file,
                  notifierVars, output_pdf >>

\* for cep in df['CEP']: ... consultar_cep(str(cep)) up to the first query.
consultar_cep ==
  /\ pc = "process_loop"
  /\ i < Len(input_file.CEP)
  /\ cep' = Normalize(input_file.CEP[i + 1])
  /\ calls' = <<>>
  /\ resposta' = NoAnswer
  /\ pc' = "viacep"
  /\ UNCHANGED << envVars, i, requisicao, dados_completos, dados_ceps, result_df,
                  output_file, notifierVars, output_pdf, log >>

\* Query with the fallback answer laid under the answer already held.
Query_merged(provider, next) ==
  \E outcome \in Outcomes :
    LET new == realizar_consulta(outcome, cep)
        r == IF provider = "opencep"
               THEN [ k \in DOMAIN new \cup DOMAIN resposta |->
                        IF k \in DOMAIN resposta THEN resposta[k] ELSE new[k] ]
               ELSE new
    IN
      /\ requisicao' = outcome
      /\ calls' = Append(calls, <<provider, cep, Accepts(outcome)>>)
      /\ resposta' = r
      /\ log' = IF r["status"] = "Erro" THEN log \cup {"api"} ELSE log
      /\ pc' = next[r["status"]]
      /\ UNCHANGED << envVars, i, cep, dados_completos, dados_ceps, result_df,
                      output_file, notifierVars, output_pdf >>

Query(provider, next) ==
  \E outcome \in Outcomes :
    LET r == realizar_consulta(outcome, cep) IN
      /\ requisicao' = outcome
      /\ calls' = Append(calls, <<provider, cep, Accepts(outcome)>>)
      /\ resposta' = r
      /\ log' = IF r["status"] = "Erro" THEN log \cup {"api"} ELSE log
      /\ pc' = next[r["status"]]
      /\ UNCHANGED << envVars, i, cep, dados_completos, dados_ceps, result_df,
                      output_file, notifierVars, output_pdf >>

\* consultar_cep asking OpenCEP whatever ViaCEP answered.
consultar_cep_viacep_always_fallback ==
  /\ pc = "viacep"
  /\ Query("viacep", [Sucesso |-> "opencep", Erro |-> "opencep"])

consultar_cep_viacep ==
  /\ pc = "viacep"
  /\ Query("viacep", [Sucesso |-> "append", Erro |-> "opencep"])

consultar_cep_opencep ==
  /\ pc = "opencep"
  /\ Query("opencep", [Sucesso |-> "append", Erro |-> "append"])

\* process keeping only the answers that resolved.
process_append_skips_failed ==
  /\ pc = "append"
  /\ dados_completos' = IF resposta["status"] = "Erro"
                           THEN dados_completos
                           ELSE Append(dados_completos, resposta)
  /\ requisicao' = NoRequest
  /\ i' = i + 1
  /\ pc' = "process_loop"
  /\ UNCHANGED << envVars, cep, resposta, calls, dados_ceps, result_df,
                  output_file, notifierVars, output_pdf, log >>

\* consultar_cep returns; dados_completos.append(dados)
process_append ==
  /\ pc = "append"
  /\ dados_completos' = Append(dados_completos, resposta)
  /\ requisicao' = NoRequest
  /\ i' = i + 1
  /\ pc' = "process_loop"
  /\ UNCHANGED << envVars, cep, resposta, calls, dados_ceps, result_df,
                  output_file, notifierVars, output_pdf, log >>

\* pd.DataFrame(dados_completos) with the EMAIL column set to "".
DataFrame(rows) ==
  [ n \in 1..Len(rows) |->
      [ k \in DOMAIN rows[n] \cup {"EMAIL"} |->
          IF k = "EMAIL" THEN "" ELSE rows[n][k] ] ]

\* After the loop: build the frame, to_excel, return it; a failing to_excel
\* lands in `except Exception`, which logs and lets process return None.
process_save ==
  /\ pc = "process_loop"
  /\ i = Len(input_file.CEP)
  /\ \E written \in BOOLEAN :
       IF written
         THEN /\ dados_ceps' = DataFrame(dados_completos)
              /\ output_file' = Append(output_file, DataFrame(dados_completos))
              /\ result_df' = "frame"
              /\ log' = log
         ELSE /\ dados_ceps' = dados_ceps
              /\ output_file' = output_file
              /\ result_df' = "None"
              /\ log' = log \cup {"unexpected"}
  /\ pc' = "main_check"
  /\ UNCHANGED << envVars, resolverVars, notifierVars, output_pdf >>

\* ------------------------------------------------------------------- main
\* main without the test for an empty frame.
main_check_no_empty_test ==
  /\ pc = "main_check"
  /\ \/ /\ result_df = "None"
        /\ log' = log \cup {"fatal"}
        /\ pc' = "raised"
     \/ /\ result_df = "frame"
        /\ pc' = "read_pass"
        /\ log' = log
  /\ UNCHANGED << envVars, resolverVars, dados_ceps, result_df, output_file,
                  notifierVars, output_pdf >>

\* result_df.empty: None has no such attribute, and the except clause of main
\* logs and re-raises; an empty frame makes main return.
main_check ==
  /\ pc = "main_check"
  /\ \/ /\ result_df = "None"
        /\ log' = log \cup {"fatal"}
        /\ pc' = "raised"
     \/ /\ result_df = "frame"
        /\ pc' = IF Len(dados_ceps) = 0 THEN "returned" ELSE "read_pass"
        /\ log' = log
  /\ UNCHANGED << envVars, resolverVars, dados_ceps, result_df, output_file,
                  notifierVars, output_pdf >>

\* main going on without the file (its text taken as empty).
ReadFile_missing_tolerated(here, present, next) ==
  /\ pc = here
  /\ pc' = next
  /\ log' = log

\* open(pass_file) or open(email_template) raising ends main.
ReadFile(here, present, next) ==
  /\ pc = here
  /\ IF present THEN pc' = next /\ log' = log
     ELSE pc' = "raised" /\ log' = log \cup {"fatal"}

main_read_pass ==
  /\ ReadFile("read_pass", pass_file, "read_template")
  /\ UNCHANGED << envVars, resolverVars, dados_ceps, result_df, output_file,
                  notifierVars, output_pdf >>

\* reading the template, then the call of send_emails
main_read_template ==
  /\ ReadFile("read_template", email_template.kind = "text", "send_loop")
  /\ IF email_template.kind = "text"
       THEN /\ corpo_template' = email_template.text
            /\ transport' = [ n \in 1..Len(dados_ceps) |-> <<>> ]
       ELSE UNCHANGED << corpo_template, transport >>
  /\ UNCHANGED << envVars, resolverVars, dados_ceps, result_df, output_file,
                  j, msg, smtp, corpo, output_pdf >>

\* ------------------------------------------------ EmailSender.send_emails
Columns(df) == UNION { DOMAIN df[n] : n \in 1..Len(df) }

\* cep['logradouro'] etc. on a row of the frame: KeyError without the column.
RenderRaises(df) == \E k \in AddressKeys : k \notin Columns(df)

SetEmail(df, n, v) == [df EXCEPT ![n] = [@ EXCEPT !["EMAIL"] = v]]

\* result: "ok", "error", or "unwinding" for the QUIT that __exit__ sends while
\* an exception leaves the with block (the except clause runs whatever it gives).
Called(op, ok) ==
  [transport EXCEPT ![j + 1] = Append(@, <<op, IF ok THEN "ok" ELSE "error">>)]

\* the else branch without its write to the EMAIL column
send_skip_unmarked ==
  /\ pc = "send_loop"
  /\ j < Len(dados_ceps)
  /\ dados_ceps[j + 1]["status"] # "Sucesso"
  /\ j' = j + 1
  /\ UNCHANGED << pc, envVars, resolverVars, dados_ceps, result_df, output_file,
                  msg, smtp, transport, corpo_template, corpo, output_pdf, log >>

\* the else branch: no send, EMAIL = 'Erro'
send_skip ==
  /\ pc = "send_loop"
  /\ j < Len(dados_ceps)
  /\ dados_ceps[j + 1]["status"] # "Sucesso"
  /\ dados_ceps' = SetEmail(dados_ceps, j + 1, "Erro")
  /\ j' = j + 1
  /\ UNCHANGED << pc, envVars, resolverVars, result_df, output_file,
                  msg, smtp, transport, corpo_template, corpo, output_pdf, log >>

\* the if branch enters the try block
send_begin ==
  /\ pc = "send_loop"
  /\ j < Len(dados_ceps)
  /\ dados_ceps[j + 1]["status"] = "Sucesso"
  /\ pc' = "render"
  /\ UNCHANGED << envVars, resolverVars, dados_ceps, result_df, output_file,
                  notifierVars, output_pdf, log >>

\* corpo = corpo_template.replace(...)...
send_render ==
  /\ pc = "render"
  /\ IF RenderRaises(dados_ceps)
       THEN pc' = "except" /\ corpo' = corpo
       ELSE pc' = "message" /\ corpo' = Render(corpo_template, dados_ceps[j + 1])
  /\ UNCHANGED << envVars, resolverVars, dados_ceps, result_df, output_file,
                  j, msg, smtp, transport, corpo_template, output_pdf, log >>

\* msg = EmailMessage(); the headers and set_content can reject their values
send_message ==
  /\ pc = "message"
  /\ msg' = TRUE
  /\ \E accepted \in BOOLEAN : pc' = IF accepted THEN "connect" ELSE "except"
  /\ UNCHANGED << envVars, resolverVars, dados_ceps, result_df, output_file,
                  j, smtp, transport, corpo_template, corpo, output_pdf, log >>

\* with smtplib.SMTP(...) as smtp: a failed constructor leaves no session
smtp_connect ==
  /\ pc = "connect"
  /\ \E ok \in BOOLEAN :
       /\ transport' = Called("connect", ok)
       /\ IF ok THEN smtp' = "open" /\ pc' = "starttls"
          ELSE smtp' = smtp /\ pc' = "except"
  /\ UNCHANGED << envVars, resolverVars, dados_ceps, result_df, output_file,
                  j, msg, corpo_template, corpo, output_pdf, log >>

\* The calls made on a session that is not managed by a with block: a call
\* that raises leaves the session open.
InSession_left_open(here, op, next) ==
  /\ pc = here
  /\ \E ok \in BOOLEAN :
       /\ transport' = Called(op, ok)
       /\ smtp' = smtp
       /\ pc' = IF ok THEN next ELSE "except"
  /\ UNCHANGED << envVars, resolverVars, dados_ceps, result_df, output_file,
                  j, msg, corpo_template, corpo, output_pdf, log >>

\* The calls with their errors swallowed: the block goes on to the next call.
InSession_error_swallowed(here, op, next) ==
  /\ pc = here
  /\ \E ok \in BOOLEAN :
       /\ transport' = Called(op, ok)
       /\ smtp' = smtp
       /\ pc' = next
  /\ UNCHANGED << envVars, resolverVars, dados_ceps, result_df, output_file,
                  j, msg, corpo_template, corpo, output_pdf, log >>

\* One call inside the with block; when it raises, __exit__ quits and closes.
InSession(here, op, next) ==
  /\ pc = here
  /\ \E ok \in BOOLEAN :
       IF ok THEN /\ transport' = Called(op, TRUE)
                  /\ smtp' = smtp
                  /\ pc' = next
       ELSE /\ transport' = [transport EXCEPT
                               ![j + 1] = @ \o << <<op, "error">>, <<"quit", "unwinding">> >>]
            /\ smtp' = "closed"
            /\ pc' = "except"
  /\ UNCHANGED << envVars, resolverVars, dados_ceps, result_df, output_file,
                  j, msg, corpo_template, corpo, output_pdf, log >>

smtp_starttls == InSession("starttls", "starttls", "login")

smtp_login == InSession("login", "login", "send_message")

smtp_send_message == InSession("send_message", "send_message", "exit")

\* leaving the with block: QUIT (which can raise), then close
smtp_exit ==
  /\ pc = "exit"
  /\ smtp' = "closed"
  /\ \E ok \in BOOLEAN :
       /\ transport' = Called("quit", ok)
       /\ pc' = IF ok THEN "sent" ELSE "except"
  /\ UNCHANGED << envVars, resolverVars, dados_ceps, result_df, output_file,
                  j, msg, corpo_template, corpo, output_pdf, log >>

\* dados_ceps.at[index, 'EMAIL'] = 'Sucesso'
send_sent ==
  /\ pc = "sent"
  /\ dados_ceps' = SetEmail(dados_ceps, j + 1, "Sucesso")
  /\ j' = j + 1
  /\ pc' = "send_loop"
  /\ UNCHANGED << envVars, resolverVars, result_df, output_file,
                  msg, smtp, transport, corpo_template, corpo, output_pdf, log >>

\* except Exception as e: the handler reads msg['To'] before it marks the
\* row; with msg unbound that read raises out of send_emails and of main.
send_except ==
  /\ pc = "except"
  /\ IF msg
       THEN /\ dados_ceps' = SetEmail(dados_ceps, j + 1, "Erro")
            /\ j' = j + 1
            /\ log' = log \cup {"send"}
            /\ pc' = "send_loop"
       ELSE /\ dados_ceps' = dados_ceps
            /\ j' = j
            /\ log' = log \cup {"fatal"}
            /\ pc' = "raised"
  /\ UNCHANGED << envVars, resolverVars, result_df, output_file,
                  msg, smtp, transport, corpo_template, corpo, output_pdf >>

\* send_emails returning without its to_excel
send_save_not_written ==
  /\ pc = "send_loop"
  /\ j = Len(dados_ceps)
  /\ pc' = "report"
  /\ UNCHANGED << envVars, resolverVars, dados_ceps, result_df, output_file,
                  notifierVars, output_pdf, log >>

\* dados_ceps.to_excel(output_file) after the loop
send_save ==
  /\ pc = "send_loop"
  /\ j = Len(dados_ceps)
  /\ \E written \in BOOLEAN :
       IF written
         THEN /\ output_file' = Append(output_file, dados_ceps)
              /\ pc' = "report"
              /\ log' = log
         ELSE /\ output_file' = output_file
              /\ pc' = "raised"
              /\ log' = log \cup {"fatal"}
  /\ UNCHANGED << envVars, resolverVars, dados_ceps, result_df,
                  notifierVars, output_pdf >>

\* ---------------------------------------------------- gerar_relatorio_pdf
Count(df, col, v) == Cardinality({ n \in 1..Len(df) : df[n][col] = v })

Relatorio(df) ==
  [ linhas |-> [ n \in 1..Len(df) |->
                   << df[n]["cep"], df[n]["status"], df[n]["EMAIL"] >> ],
    total_consultas_sucesso |-> Count(df, "status", "Sucesso"),
    total_consultas_erro    |-> Count(df, "status", "Erro"),
    total_emails_sucesso    |-> Count(df, "EMAIL", "Sucesso"),
    total_emails_erro       |-> Count(df, "EMAIL", "Erro") ]

gerar_relatorio_pdf ==
  /\ pc = "report"
  /\ \E written \in BOOLEAN :
       IF written
         THEN /\ output_pdf' = Append(output_pdf, Relatorio(dados_ceps))
              /\ pc' = "done"
              /\ log' = log
         ELSE /\ output_pdf' = output_pdf
              /\ pc' = "raised"
              /\ log' = log \cup {"fatal"}
  /\ UNCHANGED << envVars, resolverVars, dados_ceps, result_df, output_file,
                  notifierVars >>

\* ------------------------------------------------------ the specification
Next ==
  \/ process_read
  \/ consultar_cep
  \/ consultar_cep_viacep
  \/ consultar_cep_opencep
  \/ process_append
  \/ process_save
  \/ main_check
  \/ main_read_pass
  \/ main_read_template
  \/ send_skip
  \/ send_begin
  \/ send_render
  \/ send_message
  \/ smtp_connect
  \/ smtp_starttls
  \/ smtp_login
  \/ smtp_send_message
  \/ smtp_exit
  \/ send_sent
  \/ send_except
  \/ send_save
  \/ gerar_relatorio_pdf

Spec == Init /\ [][Next]_vars

\* ----------------------------------------------- rendering on its own
\* Templates and rows for the rendering step alone; a provider is free to
\* answer with a text that reads like a placeholder.
RenderTemplates ==
  Templates \cup
    { PH_cep \o <<" ">> \o PH_bairro,
      PH_bairro \o <<" ">> \o PH_cep \o <<" ">> \o PH_bairro,
      PH_cep \o <<"|">> \o PH_logradouro \o <<"|">> \o PH_bairro \o <<"|">>
        \o PH_cidade \o <<"|">> \o PH_estado }

RenderRows ==
  { [ k \in {"cep", "status", "EMAIL"} \cup shape |->
        CASE k = "cep" -> c
          [] k = "status" -> "Sucesso"
          [] k = "EMAIL" -> ""
          [] k = "logradouro" -> l
          [] k = "bairro" -> b
          [] k = "uf" -> u
          [] OTHER -> AddressText[k] ] :
      shape \in AddressShapes,
      c \in { <<"0", "-", "1">>, PH_bairro },
      l \in { <<"R">>, PH_estado },
      b \in { <<"B">>, PH_cep },
      u \in { <<"U">>, <<"$">> } }

\* The state in which send_emails is about to render the only row of a frame.
InitRender ==
  \E row \in RenderRows, t \in RenderTemplates :
    /\ pc = "render"
    /\ input_file = [kind |-> "csv", CEP |-> << <<"0", "-", "1">> >>]
    /\ pass_file = TRUE
    /\ email_template = [kind |-> "text", text |-> t]
    /\ i = 1
    /\ cep = <<"0", "1">>
    /\ requisicao = NoRequest
    /\ resposta = [ k \in DOMAIN row \ {"EMAIL"} |-> row[k] ]
    /\ calls = << <<"viacep", <<"0", "1">>, TRUE>> >>
    /\ dados_completos = << [ k \in DOMAIN row \ {"EMAIL"} |-> row[k] ] >>
    /\ dados_ceps = << row >>
    /\ result_df = "frame"
    /\ output_file = << << row >> >>
    /\ j = 0
    /\ msg = FALSE
    /\ smtp = "closed"
    /\ transport = << <<>> >>
    /\ corpo_template = t
    /\ corpo = <<>>
    /\ output_pdf = <<>>
    /\ log = {}

NextRender == send_render

SpecRender == InitRender /\ [][NextRender]_vars

\* ------------------------------------------- send_emails called once more
\* A second call of send_emails on the frame the first call returned: the
\* function starts again at the first row with its locals fresh; it reads no
\* EMAIL cell before it handles a row.
send_emails_again ==
  /\ pc = "report"
  /\ Len(output_file) = 2
  /\ j' = 0
  /\ msg' = FALSE
  /\ corpo' = <<>>
  /\ pc' = "send_loop"
  /\ UNCHANGED << envVars, resolverVars, dados_ceps, result_df, output_file,
                  smtp, transport, corpo_template, output_pdf, log >>

NextRerun == Next \/ send_emails_again

SpecRerun == Init /\ [][NextRerun]_vars

\* ================================================================ claims
NotifierStarted == Len(transport) > 0
NotifierEnded == NotifierStarted /\ pc \in {"report", "done", "raised"}

\* C1: when a run of send_emails is over, every row whose status is 'Erro'
\* has EMAIL = 'Erro' and no SMTP operation was called for it.
C1_FailedRowsEndFailed ==
  NotifierEnded =>
    \A n \in 1..Len(dados_ceps) :
      dados_ceps[n]["status"] = "Erro" =>
        dados_ceps[n]["EMAIL"] = "Erro" /\ transport[n] = <<>>

\* C2: in each consultar_cep, ViaCEP is asked first and once, OpenCEP at most
\* once and only after ViaCEP's answer was 'Erro', both with the normalized
\* cep of the current cell; one call when ViaCEP resolved, never more than two.
C2_CallState ==
  /\ Len(calls) <= 2
  /\ \A n \in 1..Len(calls) :
       /\ calls[n][1] = (IF n = 1 THEN "viacep" ELSE "opencep")
       /\ calls[n][2] =
            Normalize(input_file.CEP[IF pc \in {"viacep", "opencep", "append"}
                                       THEN i + 1 ELSE i])
  /\ pc = "append" => Len(calls) >= 1
  /\ (Len(calls) >= 1 /\ calls[1][3]) => Len(calls) = 1

C2_CallStep ==
  Len(calls') > Len(calls) =>
    /\ Len(calls') = Len(calls) + 1
    /\ Len(calls) = 1 => resposta["status"] = "Erro"

C2_FixedProviderOrder == [](C2_CallState) /\ [][C2_CallStep]_vars

C2_Witness ==
  /\ pc = "append" /\ i >= 1
  /\ Len(calls) = 1 /\ calls[1][3]
  /\ resposta["status"] = "Sucesso"

\* C3: when ViaCEP did not resolve and OpenCEP did, the record returned and
\* appended has status 'Sucesso' and otherwise exactly the keys and values of
\* OpenCEP's body.
SecondaryResolved ==
  /\ Len(calls) = 2
  /\ ~calls[1][3]
  /\ requisicao.kind = "json"
  /\ "erro" \notin DOMAIN requisicao.body
  /\ "cep" \in DOMAIN requisicao.body
  /\ requisicao.body["cep"] # <<>>

C3_SecondaryFieldsVerbatim ==
  /\ (pc = "append" /\ SecondaryResolved) =>
       /\ resposta["status"] = "Sucesso"
       /\ DOMAIN resposta = DOMAIN requisicao.body \cup {"status"}
       /\ \A k \in DOMAIN requisicao.body : resposta[k] = requisicao.body[k]
  /\ (pc = "process_loop" /\ i >= 1) => dados_completos[i] = resposta

C3_Witness ==
  /\ pc = "append" /\ SecondaryResolved
  /\ DOMAIN requisicao.body = AddressKeys \cup {"cep"}

\* C4: consultar_cep always hands back a record: its status is 'Sucesso'
\* exactly when one of the providers asked resolved and 'Erro' otherwise, no
\* record of the result list has another status, and no run ends in an
\* exception before every cell of the column has its record.
TerminalLookup == {"Sucesso", "Erro"}

C4_ResolveTotal ==
  /\ \A n \in 1..Len(dados_completos) : dados_completos[n]["status"] \in TerminalLookup
  /\ \A n \in 1..Len(dados_ceps) : dados_ceps[n]["status"] \in TerminalLookup
  /\ pc = "append" =>
       /\ resposta["status"] \in TerminalLookup
       /\ resposta["status"] = "Sucesso" <=> \E n \in 1..Len(calls) : calls[n][3]
  /\ (pc = "raised" /\ input_file.kind = "csv") =>
       Len(dados_completos) = Len(input_file.CEP)

C4_Witness ==
  /\ pc = "append"
  /\ Len(calls) = 2 /\ ~calls[1][3] /\ ~calls[2][3]
  /\ requisicao.kind = "exception"
  /\ resposta["status"] = "Erro"

\* C5: an error at any step of handling a 'Sucesso' row, whatever the row's
\* position, marks that row EMAIL = 'Erro' and the loop goes on to the next row.
C5_Step ==
  pc = "except" =>
    /\ pc' = "send_loop"
    /\ j' = j + 1
    /\ dados_ceps'[j + 1]["EMAIL"] = "Erro"

C5_FailureNeverAborts == [][C5_Step]_vars

\* C6: in every report written, the two lookup counts add up to the number of
\* rows and so do the two e-mail counts, and each count is the number of rows
\* whose column has that value.
RECURSIVE Tally(_, _, _)
Tally(rows, col, v) ==
  IF rows = <<>> THEN 0
  ELSE (IF Head(rows)[col] = v THEN 1 ELSE 0) + Tally(Tail(rows), col, v)

C6_ReportCountsAddUp ==
  \A r \in 1..Len(output_pdf) :
    LET rel == output_pdf[r] IN
      /\ rel.total_consultas_sucesso + rel.total_consultas_erro = Len(input_file.CEP)
      /\ rel.total_emails_sucesso + rel.total_emails_erro = Len(input_file.CEP)
      /\ Len(rel.linhas) = Len(input_file.CEP)
      /\ rel.total_consultas_sucesso = Tally(dados_ceps, "status", "Sucesso")
      /\ rel.total_consultas_erro = Tally(dados_ceps, "status", "Erro")
      /\ rel.total_emails_sucesso = Tally(dados_ceps, "EMAIL", "Sucesso")
      /\ rel.total_emails_erro = Tally(dados_ceps, "EMAIL", "Erro")

C6_Witness ==
  /\ pc = "done"
  /\ Len(output_pdf) = 1
  /\ output_pdf[1].total_consultas_sucesso = 1
  /\ output_pdf[1].total_consultas_erro = 1
  /\ output_pdf[1].total_emails_sucesso = 1
  /\ output_pdf[1].total_emails_erro = 1

\* C7: an answer counts as resolved only if its body has the cep and every
\* address attribute and no 'erro' marker, so every record with status
\* 'Sucesso' has all of them.
RequiredKeys == AddressKeys \cup {"cep"}

C7_ResolvedHasAllAttributes ==
  /\ \A n \in 1..Len(dados_completos) :
       dados_completos[n]["status"] = "Sucesso" =>
         RequiredKeys \subseteq DOMAIN dados_completos[n]
  /\ (pc = "append" /\ resposta["status"] = "Sucesso") =>
       /\ RequiredKeys \subseteq DOMAIN requisicao.body
       /\ "erro" \notin DOMAIN requisicao.body

\* C8: every record of the result list, 'Sucesso' or 'Erro', has as its cep
\* the input cell without hyphens and blanks, digits only, whatever the
\* providers answered.
Digits == { "0", "1", "2", "3", "4", "5", "6", "7", "8", "9" }

RECURSIVE WithoutSeparators(_)
WithoutSeparators(s) ==
  IF s = <<>> THEN <<>>
  ELSE IF Head(s) \in Whitespace \cup {"-"} THEN WithoutSeparators(Tail(s))
       ELSE <<Head(s)>> \o WithoutSeparators(Tail(s))

C8_RecordCodeIsNormalizedInput ==
  \A n \in 1..Len(dados_completos) :
    /\ dados_completos[n]["cep"] = WithoutSeparators(input_file.CEP[n])
    /\ \A c \in 1..Len(dados_completos[n]["cep"]) : dados_completos[n]["cep"][c] \in Digits

\* C9: without the 'CEP' column the run reports the input error and ends in
\* an exception of main: no provider is asked, no record exists, no dataset
\* and no report is written and no SMTP operation is called.
C9_MissingColumnIsFatal ==
  input_file.kind = "nocolumn" =>
    /\ pc \in {"main", "main_check", "raised"}
    /\ pc # "main" => "input_invalid" \in log
    /\ pc = "raised" => "fatal" \in log
    /\ calls = <<>> /\ requisicao = NoRequest
    /\ dados_completos = <<>> /\ dados_ceps = <<>>
    /\ output_file = <<>> /\ output_pdf = <<>>
    /\ transport = <<>> /\ smtp = "closed" /\ j = 0

C9_Witness ==
  /\ input_file.kind = "nocolumn"
  /\ pc = "raised"
  /\ log = {"input_invalid", "fatal"}

\* C10: when to_excel fails at the end of process, process logs the failure
\* and leaves by an exception: it hands no value, None included, back to main.
C10_PersistFailureRaises ==
  (pc = "main_check" /\ "unexpected" \in log) => result_df \notin {"None", "frame"}

\* C11: a second call of send_emails on a frame whose rows all have EMAIL
\* 'Sucesso' or 'Erro' calls no SMTP operation and changes no EMAIL cell.
SecondPass == Len(output_file) >= 2 /\ pc \notin {"report", "done", "raised"}

C11_Step ==
  SecondPass =>
    /\ transport' = transport
    /\ \A n \in 1..Len(dados_ceps) : dados_ceps'[n]["EMAIL"] = dados_ceps[n]["EMAIL"]

C11_RerunIsNoOp == [][C11_Step]_vars

\* C12: the result list grows by exactly one record per input cell, in input
\* order: the n-th record is the answer to the queries made with the n-th
\* cell, equal cells get records of their own, an 'Erro' answer is appended
\* like any other, and the frame built from the list has the same rows in the
\* same order.
Resolving == pc \in {"process_loop", "viacep", "opencep", "append"}

WithoutEmail(row) == [ k \in DOMAIN row \ {"EMAIL"} |-> row[k] ]

C12_State ==
  /\ Len(dados_completos) = i
  /\ input_file.kind = "csv" =>
       /\ i <= Len(input_file.CEP)
       /\ (~Resolving /\ pc # "main") => i = Len(input_file.CEP)
       /\ \A n \in 1..Len(dados_completos) :
            dados_completos[n]["status"] = "Erro" =>
              dados_completos[n] = [cep |-> Normalize(input_file.CEP[n]), status |-> "Erro"]
  /\ result_df = "frame" =>
       /\ Len(dados_ceps) = Len(input_file.CEP)
       /\ \A n \in 1..Len(dados_ceps) : WithoutEmail(dados_ceps[n]) = dados_completos[n]

C12_Step ==
  (dados_completos' # dados_completos \/ i' # i) =>
    /\ i' = i + 1
    /\ dados_completos' = Append(dados_completos, resposta)
    /\ Len(calls) >= 1
    /\ \A c \in 1..Len(calls) : calls[c][2] = Normalize(input_file.CEP[i + 1])
    /\ resposta = realizar_consulta(requisicao, Normalize(input_file.CEP[i + 1]))

C12_OneRecordPerCodeInOrder == [](C12_State) /\ [][C12_Step]_vars

C12_Witness ==
  /\ pc = "main_check" /\ result_df = "frame"
  /\ Len(input_file.CEP) = 2
  /\ input_file.CEP[1] = input_file.CEP[2]
  /\ dados_ceps[1]["status"] = "Erro"
  /\ dados_ceps[2]["status"] = "Sucesso"

\* C13: the rendered body is the template with every occurrence of every
\* placeholder replaced by the row's value for it, each value put in as it
\* is: a placeholder spelled inside a value stays as text.
RECURSIVE Literal(_, _)
Literal(s, row) ==
  IF s = <<>> THEN <<>>
  ELSE LET hit == { k \in DOMAIN Placeholder :
                      /\ Len(Placeholder[k]) <= Len(s)
                      /\ SubSeq(s, 1, Len(Placeholder[k])) = Placeholder[k] }
       IN  IF hit = {} THEN <<Head(s)>> \o Literal(Tail(s), row)
           ELSE LET k == CHOOSE h \in hit : TRUE
                IN  StrCell(row, k)
                      \o Literal(SubSeq(s, Len(Placeholder[k]) + 1, Len(s)), row)

C13_RenderIsLiteral ==
  pc = "message" => corpo = Literal(corpo_template, dados_ceps[j + 1])

\* C14: with pass.txt or email_modelo.html missing, the run never enters
\* send_emails: no SMTP operation is called, every EMAIL cell stays "", no
\* report is written, and when main has failed on the missing file the dataset
\* holds exactly what process wrote.
Notifying ==
  pc \in {"send_loop", "render", "message", "connect", "starttls", "login",
          "send_message", "exit", "sent", "except"}

FileMissing == ~pass_file \/ email_template.kind = "absent"

C14_MissingFileIsFatal ==
  FileMissing =>
    /\ ~Notifying /\ pc \notin {"report", "done"}
    /\ transport = <<>> /\ smtp = "closed" /\ j = 0
    /\ \A n \in 1..Len(dados_ceps) : dados_ceps[n]["EMAIL"] = ""
    /\ output_pdf = <<>>
    /\ Len(output_file) <= 1
    /\ (pc = "raised" /\ result_df = "frame") =>
         /\ output_file = << DataFrame(dados_completos) >>
         /\ "fatal" \in log

C14_Witness ==
  /\ pass_file /\ email_template.kind = "absent"
  /\ pc = "raised" /\ result_df = "frame"
  /\ Len(dados_ceps) = 2
  /\ dados_ceps[1]["status"] = "Sucesso"

\* C15 as claimed: every run that ends normally has written the dataset
\* exactly twice.
C15_EveryCompletedRunWritesTwice ==
  pc \in {"done", "returned"} => Len(output_file) = 2

\* C15 as amended: a run that ends with its report has written the dataset
\* exactly twice, each time whole: first when the last cell has its record and
\* before any SMTP call, then when every row has EMAIL 'Sucesso' or 'Erro' and
\* before the report; nothing is written while a lookup is outstanding.
TerminalEmail == {"Sucesso", "Erro"}

C15_State ==
  /\ pc = "done" => Len(output_file) = 2
  /\ pc \in {"viacep", "opencep", "append"} => output_file = <<>>
  /\ output_file = <<>> => transport = <<>>
  /\ output_pdf # <<>> =>
       /\ Len(output_file) = 2
       /\ output_file[2] = dados_ceps

C15_WriteStep ==
  output_file' # output_file =>
    \/ /\ output_file = <<>>
       /\ pc = "process_loop"
       /\ Len(dados_completos) = Len(input_file.CEP)
       /\ transport = <<>>
       /\ output_file' = << DataFrame(dados_completos) >>
    \/ /\ Len(output_file) = 1
       /\ pc = "send_loop"
       /\ \A n \in 1..Len(dados_ceps) : dados_ceps[n]["EMAIL"] \in TerminalEmail
       /\ output_pdf = <<>>
       /\ output_file' = Append(output_file, dados_ceps)

C15_TwoWholeWrites == [](C15_State) /\ [][C15_WriteStep]_vars

C15_Witness ==
  /\ pc = "done"
  /\ Len(dados_ceps) = 2
  /\ Len(output_file) = 2
  /\ output_file[1] = DataFrame(dados_completos)
  /\ output_file[2] = dados_ceps

\* C16: in one pass of send_emails every EMAIL cell goes from "" to 'Sucesso'
\* or 'Erro' exactly once and stays; no row gets more than one session or more
\* than one send_message; and no cell changes before every cell of the input
\* has its record.
Calls(n, op) == { c \in 1..Len(transport[n]) : transport[n][c][1] = op }

C16_State ==
  /\ NotifierEnded =>
       \A n \in 1..Len(dados_ceps) : dados_ceps[n]["EMAIL"] \in TerminalEmail
  /\ \A n \in 1..Len(transport) :
       /\ Cardinality(Calls(n, "connect")) <= 1
       /\ Cardinality(Calls(n, "send_message")) <= 1

C16_Step ==
  \A n \in 1..Len(dados_ceps) :
    (Len(dados_ceps') = Len(dados_ceps) /\ dados_ceps'[n]["EMAIL"] # dados_ceps[n]["EMAIL"]) =>
      /\ dados_ceps[n]["EMAIL"] = ""
      /\ dados_ceps'[n]["EMAIL"] \in TerminalEmail
      /\ Len(dados_completos) = Len(input_file.CEP)
      /\ \A k \in 1..Len(dados_ceps) : dados_ceps[k]["status"] \in TerminalLookup

C16_EmailChangesExactlyOnce == [](C16_State) /\ [][C16_Step]_vars

\* C17: a session is opened only for the row in hand and only once for it, it
\* is the only one open, and it is closed again (QUIT sent) before the loop
\* turns to the next row, whether its calls succeeded or raised.
\* The calls of a row whose message went out and whose session closed cleanly.
CleanDelivery ==
  << <<"connect", "ok">>, <<"starttls", "ok">>, <<"login", "ok">>,
     <<"send_message", "ok">>, <<"quit", "ok">> >>

InWithBlock == pc \in {"starttls", "login", "send_message", "exit"}

C17_State ==
  /\ smtp = "open" <=> InWithBlock
  /\ \A n \in 1..Len(transport) :
       LET t == transport[n] IN
         /\ Cardinality(Calls(n, "connect")) <= 1
         /\ t # <<>> => t[1][1] = "connect"
         /\ dados_ceps[n]["status"] # "Sucesso" => t = <<>>
         /\ n > j + 1 => t = <<>>
         /\ (n = j + 1 /\ InWithBlock) => (t[1] = <<"connect", "ok">> /\ Calls(n, "quit") = {})
         /\ (t # <<>> /\ ~(n = j + 1 /\ InWithBlock)) =>
              \/ t = << <<"connect", "error">> >>
              \/ (t[1] = <<"connect", "ok">> /\ Calls(n, "quit") = {Len(t)})
         /\ dados_ceps[n]["EMAIL"] = "Sucesso" => Cardinality(Calls(n, "connect")) = 1

C17_Step == (smtp = "closed" /\ smtp' = "open") => (pc = "connect" /\ transport[j + 1] = <<>>)

C17_OneSessionPerRecord == [](C17_State) /\ [][C17_Step]_vars

C17_Witness ==
  /\ pc = "send_loop" /\ j = 2 /\ smtp = "closed"
  /\ transport[1] = << <<"connect", "ok">>, <<"starttls", "ok">>, <<"login", "error">>,
                       <<"quit", "unwinding">> >>
  /\ dados_ceps[2]["EMAIL"] = "Sucesso"
  /\ transport[2] = CleanDelivery

\* C18: EMAIL is 'Sucesso' only on a row whose status is 'Sucesso' and whose
\* connect, starttls, login, send_message and closing QUIT all returned without
\* error; no row has status 'Erro' and EMAIL 'Sucesso'.
C18_SentOnlyAfterCleanDelivery ==
  \A n \in 1..Len(dados_ceps) :
    dados_ceps[n]["EMAIL"] = "Sucesso" =>
      /\ dados_ceps[n]["status"] = "Sucesso"
      /\ NotifierStarted
      /\ transport[n] = CleanDelivery

C18_Witness ==
  /\ pc = "report"
  /\ Len(dados_ceps) = 2
  /\ dados_ceps[1]["EMAIL"] = "Sucesso"
  /\ dados_ceps[2]["status"] = "Sucesso"
  /\ dados_ceps[2]["EMAIL"] = "Erro"
  /\ transport[1] = CleanDelivery
  /\ Len(transport[2]) = 5
  /\ transport[2][4] = <<"send_message", "error">>

\* C19: with the 'CEP' column there but empty, no provider is asked and the
\* dataset written is empty; once it is written main returns: it reads neither
\* pass.txt nor the template, calls no SMTP operation, writes the dataset no
\* second time and writes no report.
EmptyInput == input_file.kind = "csv" /\ input_file.CEP = <<>>

C19_EmptyInputEndsEarly ==
  EmptyInput =>
    /\ pc \in {"main", "process_loop", "main_check", "returned", "raised"}
    /\ calls = <<>> /\ requisicao = NoRequest /\ dados_completos = <<>>
    /\ transport = <<>> /\ smtp = "closed" /\ corpo_template = <<>>
    /\ output_pdf = <<>>
    /\ result_df = "frame" =>
         /\ output_file = << <<>> >>
         /\ pc \in {"main_check", "returned"}
         /\ "fatal" \notin log
    /\ result_df # "frame" => output_file = <<>>
    /\ pc = "returned" => result_df = "frame"

C19_Witness ==
  /\ EmptyInput
  /\ pc = "returned"
  /\ output_file = << <<>> >>
  /\ log = {}

====
